---- MODULE Spec2Model ----
(***************************************************************************)
(* Hash bin delegation (examples/repo_example/hashed_bin_delegation.py).   *)
(*                                                                         *)
(* The script derives PREFIX_LEN, NUMBER_OF_PREFIXES and BIN_SIZE from the *)
(* configured NUMBER_OF_BINS, wires one DelegatedRole and one delegated    *)
(* targets Metadata per generated bin into the delegating role 'bins',     *)
(* adds target files to the bin found by find_hash_bin, and then signs and *)
(* persists every role in the insertion order of the 'roles' dict.         *)
(*                                                                         *)
(* Strings the script builds with format specs are built here digit by     *)
(* digit; dicts that keep insertion order are sequences of key/value       *)
(* records.                                                                *)
(***************************************************************************)
EXTENDS Integers, Sequences, FiniteSets, TLC

\* ---------------------------------------------------------------- bounds
\* Configured bin counts explored: every power of two up to 2^MaxBinExp and
\* every count, power of two or not, up to MaxUnevenBins.
MaxBinExp == 5
MaxUnevenBins == 6
\* Largest number of target files added before signing.
MaxAdds == 3

VARIABLES
    NUMBER_OF_BINS,  \* the configured number of bins (line 69)
    pc,              \* position of the script: "wire", "add", "sign", "done", "failed"
    roles,           \* the global 'roles' dict, in insertion order
    bin_i,           \* number of bins the wiring loop has taken from the generator
    adds,            \* number of target files added so far
    sign_i,          \* number of roles the sign-and-persist loop has completed
    files,           \* TMP_DIR: file name -> metadata as written by to_file
    error            \* the exception that ended the script, or "none"

vars == <<NUMBER_OF_BINS, pc, roles, bin_i, adds, sign_i, files, error>>

\* ------------------------------------------------- hexadecimal formatting
HexDigits == <<"0", "1", "2", "3", "4", "5", "6", "7",
               "8", "9", "a", "b", "c", "d", "e", "f">>

\* f"{n:x}" for n >= 0
RECURSIVE hex(_)
hex(n) == IF n < 16 THEN HexDigits[n + 1]
          ELSE hex(n \div 16) \o HexDigits[(n % 16) + 1]

\* len(f"{n:x}") for n >= 0
RECURSIVE hexlen(_)
hexlen(n) == IF n < 16 THEN 1 ELSE 1 + hexlen(n \div 16)

RECURSIVE zeros(_)
zeros(k) == IF k <= 0 THEN "" ELSE "0" \o zeros(k - 1)

\* f"{n:0{width}x}": width is a minimum, longer numbers are not truncated
hexpad(n, width) == zeros(width - hexlen(n)) \o hex(n)

\* int(digits, 16) for a sequence of hexadecimal digit characters
hexdigit_value(ch) == CHOOSE v \in 0..15 : HexDigits[v + 1] = ch

RECURSIVE int16(_)
int16(digits) ==
    IF digits = <<>> THEN 0
    ELSE 16 * int16(SubSeq(digits, 1, Len(digits) - 1))
         + hexdigit_value(digits[Len(digits)])

RECURSIVE pow16(_)
pow16(k) == IF k = 0 THEN 1 ELSE 16 * pow16(k - 1)

RECURSIVE joinchars(_)
joinchars(digits) ==
    IF digits = <<>> THEN "" ELSE Head(digits) \o joinchars(Tail(digits))

\* -------------------------------------------------- derived configuration
PREFIX_LEN == hexlen(NUMBER_OF_BINS - 1)
NUMBER_OF_PREFIXES == pow16(PREFIX_LEN)
BIN_SIZE == NUMBER_OF_PREFIXES \div NUMBER_OF_BINS

\* ------------------------------------------------------------- helpers
_bin_name(low, high) ==
    IF low = high THEN hexpad(low, PREFIX_LEN)
    ELSE hexpad(low, PREFIX_LEN) \o "-" \o hexpad(high, PREFIX_LEN)

\* the hash prefixes appended by the inner loop, range(low, low + BIN_SIZE)
RECURSIVE prefixes_in_range(_, _)
prefixes_in_range(start, stop) ==
    IF start >= stop THEN <<>>
    ELSE <<hexpad(start, PREFIX_LEN)>> \o prefixes_in_range(start + 1, stop)

\* Variant of hash_prefixes whose inner range stops one prefix early.
hash_prefixes_short(low) == prefixes_in_range(low, low + BIN_SIZE - 1)

hash_prefixes(low) == prefixes_in_range(low, low + BIN_SIZE)

\* one iteration of the generator's outer loop: the yielded pair together
\* with the loop's locals low and high
hash_bin(low) ==
    [name |-> _bin_name(low, low + BIN_SIZE - 1),
     hash_prefixes |-> hash_prefixes(low),
     low |-> low,
     high |-> low + BIN_SIZE - 1]

\* range(0, NUMBER_OF_PREFIXES, BIN_SIZE), as the sequence of its values
RECURSIVE range_from(_, _, _)
range_from(start, stop, step) ==
    IF start >= stop THEN <<>>
    ELSE <<start>> \o range_from(start + step, stop, step)

RECURSIVE hash_bins_for(_)
hash_bins_for(lows) ==
    IF lows = <<>> THEN <<>>
    ELSE <<hash_bin(Head(lows))>> \o hash_bins_for(Tail(lows))

\* Variant of generate_hash_bins whose outer range stops one bin early.
generate_hash_bins_short ==
    hash_bins_for(range_from(0, NUMBER_OF_PREFIXES - BIN_SIZE, BIN_SIZE))

generate_hash_bins == hash_bins_for(range_from(0, NUMBER_OF_PREFIXES, BIN_SIZE))

\* Target paths added by the script's "add target file" step, and the
\* leading digits of hashlib.sha256(path.encode("utf-8")).hexdigest().
TargetPaths ==
    {"repo_example/hashed_bin_delegation.py",
     "targets/file264.txt",
     "targets/file287.txt"}

sha256_hexdigest(path) ==
    CASE path = "repo_example/hashed_bin_delegation.py" -> <<"8", "5", "e", "1">>
      [] path = "targets/file264.txt"                   -> <<"8", "7", "4", "5">>
      [] path = "targets/file287.txt"                   -> <<"f", "f", "1", "3">>

\* Variant of hash_bin_of_prefix that reduces the prefix modulo the number
\* of bins instead of the bin size.
hash_bin_of_prefix_modbins(prefix) ==
    LET low == prefix - (prefix % NUMBER_OF_BINS)
        high == low + BIN_SIZE - 1
    IN  _bin_name(low, high)

\* lines 124-126: the bin name for the numerical value of a hash prefix
hash_bin_of_prefix(prefix) ==
    LET low == prefix - (prefix % BIN_SIZE)
        high == low + BIN_SIZE - 1
    IN  _bin_name(low, high)

find_hash_bin(path) ==
    LET target_name_hash == sha256_hexdigest(path)
        prefix == int16(SubSeq(target_name_hash, 1, PREFIX_LEN))
    IN  hash_bin_of_prefix(prefix)

\* ------------------------------------------------------- dicts and keys
\* A dict that keeps insertion order: a sequence of [name, value] records.
od_has(od, name) == \E i \in 1..Len(od) : od[i].name = name

od_get(od, name) == od[CHOOSE i \in 1..Len(od) : od[i].name = name].value

\* od[name] = value: replaces in place, or appends a new key at the end
od_set(od, name, value) ==
    IF od_has(od, name)
    THEN [i \in 1..Len(od) |->
            IF od[i].name = name THEN [name |-> name, value |-> value] ELSE od[i]]
    ELSE Append(od, [name |-> name, value |-> value])

\* Variant of dict_set that rebinds the dict to one holding the new item only.
dict_set_fresh(d, key, value) == [k \in {key} |-> value]

\* d[key] = value for a plain dict (a function on its keys)
dict_set(d, key, value) ==
    [k \in DOMAIN d \cup {key} |-> IF k = key THEN value ELSE d[k]]

EmptyDict == [k \in {} |-> 0]

\* keys[name] = generate_ed25519_key(): two keys, told apart by their key id
keys ==
    [name \in {"bin-n", "bins"} |->
        [keyid |-> "keyid-of-" \o name, keytype |-> "ed25519"]]

SPEC_VERSION == "1.0.19"

\* ------------------------------------------------------- metadata objects
\* Delegations is optional in Targets: <<>> is None, <<d>> is a Delegations d.
Targets(expires, delegations) ==
    [version |-> 1,
     spec_version |-> SPEC_VERSION,
     expires |-> expires,
     targets |-> EmptyDict,
     delegations |-> delegations]

\* roles["bins"] as first constructed: the key of the delegated roles is in
\* the key store, the delegated roles are filled in by the wiring loop
delegating_targets_metadata ==
    [signed |->
        Targets(365,
                <<[keys |-> [k \in {keys["bin-n"].keyid} |-> keys["bin-n"]],
                   roles |-> <<>>]>>),
     signatures |-> <<>>]

DelegatedRole(bin_n_name, bin_n_hash_prefixes) ==
    [name |-> bin_n_name,
     keyids |-> <<keys["bin-n"].keyid>>,
     threshold |-> 1,
     terminating |-> FALSE,
     path_hash_prefixes |-> bin_n_hash_prefixes]

\* Variant of delegated_targets_metadata that is signed as it is created,
\* inside the wiring loop.
delegated_targets_metadata_signed ==
    [signed |-> Targets(7, <<>>),
     signatures |-> <<[keyid |-> keys["bin-n"].keyid, over |-> Targets(7, <<>>)]>>]

delegated_targets_metadata ==
    [signed |-> Targets(7, <<>>), signatures |-> <<>>]

\* TargetFile.from_file(target_path, local_path): length and hashes of the
\* file's content, which is identified here by a content number
FileContents == {1, 2}

TargetFile_from_file(target_path, content) ==
    [path |-> target_path, length |-> content, hashes |-> content]

\* Metadata.sign(signer) with append=False: the signature is made over the
\* signed part as it is now and replaces every signature the metadata had
sign(md, key) ==
    [md EXCEPT !.signatures = <<[keyid |-> key.keyid, over |-> md.signed]>>]

\* Variant of signing_key that uses the shared key for every role.
signing_key_shared(role_name) == keys["bin-n"]

\* line 228
signing_key(role_name) ==
    IF role_name = "bins" THEN keys["bins"] ELSE keys["bin-n"]

\* ---------------------------------------------------------------- script
BinCounts ==
    {n \in 1..pow16(2) : \E e \in 0..MaxBinExp : n = 2 ^ e} \cup (1..MaxUnevenBins)

Init ==
    /\ NUMBER_OF_BINS \in BinCounts
    /\ pc = "wire"
    /\ roles = <<[name |-> "bins", value |-> delegating_targets_metadata]>>
    /\ bin_i = 0
    /\ adds = 0
    /\ sign_i = 0
    /\ files = EmptyDict
    /\ error = "none"

\* lines 180-194: the body of the wiring loop for one yielded bin
wire_bin(rs, bin_n_name, bin_n_hash_prefixes) ==
    LET bins == od_get(rs, "bins")
        wired == [bins EXCEPT !.signed.delegations[1].roles =
                    od_set(@, bin_n_name,
                           DelegatedRole(bin_n_name, bin_n_hash_prefixes))]
    IN  od_set(od_set(rs, "bins", wired), bin_n_name, delegated_targets_metadata)

\* One iteration of "for bin_n_name, bin_n_hash_prefixes in generate_hash_bins()"
WireBin ==
    /\ pc = "wire"
    /\ bin_i < Len(generate_hash_bins)
    /\ LET b == generate_hash_bins[bin_i + 1]
       IN  roles' = wire_bin(roles, b.name, b.hash_prefixes)
    /\ bin_i' = bin_i + 1
    /\ pc' = IF bin_i + 1 = Len(generate_hash_bins) THEN "add" ELSE "wire"
    /\ UNCHANGED <<NUMBER_OF_BINS, adds, sign_i, files, error>>

\* Variant of add_target that files the target in the delegating role.
add_target_in_bins(rs, target_path, target_file_info) ==
    LET md == od_get(rs, "bins")
    IN  od_set(rs, "bins",
               [md EXCEPT !.signed.targets =
                    dict_set(@, target_path, target_file_info)])

\* lines 213-214: roles[bin_for_target].signed.targets[target_path] = info
add_target(rs, target_path, target_file_info) ==
    LET bin_for_target == find_hash_bin(target_path)
        md == od_get(rs, bin_for_target)
    IN  od_set(rs, bin_for_target,
               [md EXCEPT !.signed.targets =
                    dict_set(@, target_path, target_file_info)])

\* Variant of AddTarget that may also run between two iterations of the
\* sign-and-persist loop.
AddTarget_while_signing ==
    /\ pc \in {"add", "sign"}
    /\ adds < MaxAdds
    /\ \E target_path \in TargetPaths, content \in FileContents :
         /\ od_has(roles, find_hash_bin(target_path))
         /\ roles' = add_target(roles, target_path,
                                TargetFile_from_file(target_path, content))
    /\ adds' = adds + 1
    /\ UNCHANGED <<NUMBER_OF_BINS, pc, bin_i, sign_i, files, error>>

\* lines 203-214; a bin name that is no key of roles raises KeyError
AddTarget ==
    /\ pc = "add"
    /\ adds < MaxAdds
    /\ \E target_path \in TargetPaths, content \in FileContents :
         LET info == TargetFile_from_file(target_path, content)
         IN  IF od_has(roles, find_hash_bin(target_path))
             THEN /\ roles' = add_target(roles, target_path, info)
                  /\ adds' = adds + 1
                  /\ UNCHANGED <<pc, error>>
             ELSE /\ pc' = "failed"
                  /\ error' = "KeyError"
                  /\ UNCHANGED <<roles, adds>>
    /\ UNCHANGED <<NUMBER_OF_BINS, bin_i, sign_i, files>>

\* lines 224-225: the serializer and the fresh, empty TMP_DIR
MakeTmpDir ==
    /\ pc = "add"
    /\ adds >= 1
    /\ pc' = "sign"
    /\ files' = EmptyDict
    /\ UNCHANGED <<NUMBER_OF_BINS, roles, bin_i, adds, sign_i, error>>

\* lines 227-234: one iteration of the loop over roles.items()
SignAndPersist ==
    /\ pc = "sign"
    /\ sign_i < Len(roles)
    /\ LET role_name == roles[sign_i + 1].name
           role == sign(roles[sign_i + 1].value, signing_key(role_name))
       IN  /\ roles' = od_set(roles, role_name, role)
           /\ files' = dict_set(files, role_name \o ".json", role)
    /\ sign_i' = sign_i + 1
    /\ pc' = IF sign_i + 1 = Len(roles) THEN "done" ELSE "sign"
    /\ UNCHANGED <<NUMBER_OF_BINS, bin_i, adds, error>>

\* line 230 raises: the signer failed, nothing was attached or written, and
\* the exception ends the script
SignRaises ==
    /\ pc = "sign"
    /\ sign_i < Len(roles)
    /\ pc' = "failed"
    /\ error' = "sign"
    /\ UNCHANGED <<NUMBER_OF_BINS, roles, bin_i, adds, sign_i, files>>

\* line 234 raises: the role is signed but its file was not written, and the
\* exception ends the script
ToFileRaises ==
    /\ pc = "sign"
    /\ sign_i < Len(roles)
    /\ LET role_name == roles[sign_i + 1].name
       IN  roles' = od_set(roles, role_name,
                           sign(roles[sign_i + 1].value, signing_key(role_name)))
    /\ pc' = "failed"
    /\ error' = "to_file"
    /\ UNCHANGED <<NUMBER_OF_BINS, bin_i, adds, sign_i, files>>

Next ==
    \/ WireBin
    \/ AddTarget
    \/ MakeTmpDir
    \/ SignAndPersist
    \/ SignRaises
    \/ ToFileRaises

Spec == Init /\ [][Next]_vars

\* ------------------------------------------------------------ properties
IsPowerOfTwo(n) == \E e \in 0..12 : n = 2 ^ e

Range(seq) == {seq[i] : i \in 1..Len(seq)}

\* the delegating role and the role mapping of its delegations
Parent == od_get(roles, "bins")
DelegatedRoles == Parent.signed.delegations[1].roles

IsSigned(i) == roles[i].value.signatures # <<>>
TargetsOf(i) == roles[i].value.signed.targets
AnySigned == \E i \in 1..Len(roles) : IsSigned(i)

\* the hash prefix of a path, as the digits target_name_hash[:PREFIX_LEN]
PathHashPrefix(path) == joinchars(SubSeq(sha256_hexdigest(path), 1, PREFIX_LEN))

\* C1 (what generate_hash_bins yields depends on NUMBER_OF_BINS alone, which
\* no step changes; it is stated of the states in which the wiring loop
\* consumes the generator and of those right after it):
\* for a power-of-two bin count, BIN_SIZE * NUMBER_OF_BINS equals
\* NUMBER_OF_PREFIXES, generate_hash_bins yields exactly NUMBER_OF_BINS bins
\* (and the wiring loop has taken that many once it is over), the prefixes of
\* each bin are those of the inclusive range [low, low + BIN_SIZE - 1], the
\* ranges are pairwise disjoint, none leaves 0..NUMBER_OF_PREFIXES-1, and
\* every prefix value of 0..NUMBER_OF_PREFIXES-1 is in one of them.
C1_BinsPartitionPrefixSpace ==
    (IsPowerOfTwo(NUMBER_OF_BINS) /\ pc \in {"wire", "add"}) =>
        LET bins == generate_hash_bins
        IN  /\ BIN_SIZE * NUMBER_OF_BINS = NUMBER_OF_PREFIXES
            /\ Len(bins) = NUMBER_OF_BINS
            /\ pc # "wire" => bin_i = NUMBER_OF_BINS
            /\ \A i \in 1..Len(bins) :
                 /\ bins[i].high = bins[i].low + BIN_SIZE - 1
                 /\ 0 <= bins[i].low
                 /\ bins[i].high <= NUMBER_OF_PREFIXES - 1
                 /\ Len(bins[i].hash_prefixes) = BIN_SIZE
                 /\ \A k \in 1..Len(bins[i].hash_prefixes) :
                      bins[i].hash_prefixes[k] = hexpad(bins[i].low + k - 1, PREFIX_LEN)
            /\ \A i, j \in 1..Len(bins) :
                 i # j => (bins[i].high < bins[j].low \/ bins[j].high < bins[i].low)
            /\ \A p \in 0..(NUMBER_OF_PREFIXES - 1) :
                 \E i \in 1..Len(bins) : bins[i].low <= p /\ p <= bins[i].high

C1_Witness ==
    /\ NUMBER_OF_BINS = 32
    /\ pc = "add"
    /\ bin_i = 32
    /\ Len(DelegatedRoles) = 32

\* C2 (stated of the states in which the script calls find_hash_bin):
\* for a power-of-two bin count and every hash prefix value p in
\* 0..NUMBER_OF_PREFIXES-1, the name found for p is the name of the range
\* [p - p mod BIN_SIZE, p - p mod BIN_SIZE + BIN_SIZE - 1] and is the name of
\* exactly one generated bin, whose prefix list contains p; for every target
\* path, find_hash_bin names exactly one generated bin, and that bin's prefix
\* list contains the leading PREFIX_LEN digits of the path's digest.
C2_FindHashBinNamesTheServingBin ==
    (IsPowerOfTwo(NUMBER_OF_BINS) /\ pc = "add") =>
        LET bins == generate_hash_bins
            named(n) == {i \in 1..Len(bins) : bins[i].name = n}
        IN  /\ \A p \in 0..(NUMBER_OF_PREFIXES - 1) :
                 LET low == p - (p % BIN_SIZE)
                     n == hash_bin_of_prefix(p)
                 IN  /\ n = _bin_name(low, low + BIN_SIZE - 1)
                     /\ Cardinality(named(n)) = 1
                     /\ \A i \in named(n) :
                          hexpad(p, PREFIX_LEN) \in Range(bins[i].hash_prefixes)
            /\ \A path \in TargetPaths :
                 LET n == find_hash_bin(path)
                 IN  /\ Cardinality(named(n)) = 1
                     /\ \A i \in named(n) :
                          PathHashPrefix(path) \in Range(bins[i].hash_prefixes)

C2_Witness ==
    /\ NUMBER_OF_BINS = 32
    /\ adds >= 1
    /\ find_hash_bin("repo_example/hashed_bin_delegation.py") = "80-87"
    /\ od_has(roles, "80-87")
    /\ "repo_example/hashed_bin_delegation.py"
           \in DOMAIN od_get(roles, "80-87").signed.targets

\* the two-digit prefixes "00".."ff", digit by digit
TwoDigitPrefixes == {HexDigits[a] \o HexDigits[b] : a, b \in 1..16}

\* the path_hash_prefixes lists of a role mapping, one after the other
RECURSIVE AllPathHashPrefixes(_)
AllPathHashPrefixes(dr) ==
    IF dr = <<>> THEN <<>>
    ELSE Head(dr).value.path_hash_prefixes \o AllPathHashPrefixes(Tail(dr))

\* C3: once the wiring loop is over for 32 bins, the role mapping of the
\* delegating role has exactly 32 entries, in the order in which the bins
\* were yielded, which is ascending in the low bound of their ranges; every
\* entry's path_hash_prefixes has length 8; and the lists taken together
\* have 256 elements, no element twice, and hold every two-digit prefix.
C3_DelegatedRolesCoverAllPrefixesOnce ==
    (NUMBER_OF_BINS = 32 /\ pc # "wire") =>
        LET dr == DelegatedRoles
            bins == generate_hash_bins
        IN  /\ Len(dr) = 32
            /\ \A i \in 1..Len(dr) :
                 /\ dr[i].name = bins[i].name
                 /\ dr[i].value.name = dr[i].name
                 /\ dr[i].value.path_hash_prefixes # <<>>
                 /\ Len(dr[i].value.path_hash_prefixes) = 8
                 /\ dr[i].value.path_hash_prefixes[1] = hexpad(8 * (i - 1), 2)
            /\ LET all == AllPathHashPrefixes(dr)
               IN  /\ Len(all) = 256
                   /\ Cardinality(Range(all)) = Len(all)
                   /\ Range(all) = TwoDigitPrefixes

C3_Witness ==
    /\ NUMBER_OF_BINS = 32
    /\ pc = "sign"
    /\ Len(DelegatedRoles) = 32
    /\ DelegatedRoles[17].name = "80-87"

\* C4: in every state, a path is in the targets of a role only if that role
\* is the bin find_hash_bin names for the path; the role is not the
\* delegating role 'bins'; no other role holds the path; and the
\* DelegatedRole entry of that bin lists the path's hash prefix.
C4_TargetsOnlyInTheirBin ==
    \A i \in 1..Len(roles) : \A path \in DOMAIN TargetsOf(i) :
        /\ roles[i].name = find_hash_bin(path)
        /\ roles[i].name # "bins"
        /\ \A j \in 1..Len(roles) : path \in DOMAIN TargetsOf(j) => j = i
        /\ od_has(DelegatedRoles, roles[i].name)
        /\ PathHashPrefix(path)
               \in Range(od_get(DelegatedRoles, roles[i].name).path_hash_prefixes)

\* two distinct paths that fall into the same bin, and a third in another
C4_Witness ==
    /\ NUMBER_OF_BINS = 32
    /\ adds = 2
    /\ od_has(roles, "80-87")
    /\ DOMAIN od_get(roles, "80-87").signed.targets =
           {"repo_example/hashed_bin_delegation.py", "targets/file264.txt"}

\* a role has content: delegated roles for 'bins', targets for a bin
IsPopulated(i) ==
    IF roles[i].name = "bins" THEN DelegatedRoles # <<>>
    ELSE DOMAIN TargetsOf(i) # {}

\* every signature a role carries was made over its present signed part
SignaturesAreCurrent(i) ==
    \A k \in 1..Len(roles[i].value.signatures) :
        roles[i].value.signatures[k].over = roles[i].value.signed

C7_SigningComesLast ==
    [][/\ (~AnySigned /\ AnySigned') =>
            /\ pc = "sign"
            /\ adds >= 1
            /\ bin_i = Len(generate_hash_bins)
            /\ Len(DelegatedRoles) = bin_i
            /\ Len(roles) = bin_i + 1
       /\ AnySigned =>
            /\ Len(roles') = Len(roles)
            /\ adds' = adds
            /\ bin_i' = bin_i
            /\ \A i \in 1..Len(roles) :
                 /\ roles'[i].name = roles[i].name
                 /\ roles'[i].value.signed = roles[i].value.signed]_vars

C7_Witness ==
    /\ pc = "sign"
    /\ sign_i >= 2
    /\ sign_i < Len(roles)
    /\ IsSigned(sign_i)
    /\ ~IsSigned(sign_i + 1)

\* C8: when the script has ended without an exception, every role carries
\* exactly one signature; that of 'bins' is by the 'bins' key; that of every
\* other role is by the 'bin-n' key, a different key, whose key id is in the
\* keyids of the role's DelegatedRole and in the key table of the
\* delegations; and for a power-of-two bin count the roles are 'bins' and
\* NUMBER_OF_BINS bins, each with its file written as signed.
C8_EveryRoleSignedByItsKey ==
    pc = "done" =>
        /\ keys["bins"].keyid # keys["bin-n"].keyid
        /\ IsPowerOfTwo(NUMBER_OF_BINS) => Len(roles) = NUMBER_OF_BINS + 1
        /\ roles[1].name = "bins"
        /\ \A i \in 1..Len(roles) :
             /\ Len(roles[i].value.signatures) = 1
             /\ roles[i].name \o ".json" \in DOMAIN files
             /\ files[roles[i].name \o ".json"] = roles[i].value
             /\ IF roles[i].name = "bins"
                THEN roles[i].value.signatures[1].keyid = keys["bins"].keyid
                ELSE /\ roles[i].value.signatures[1].keyid = keys["bin-n"].keyid
                     /\ od_has(DelegatedRoles, roles[i].name)
                     /\ roles[i].value.signatures[1].keyid
                            \in Range(od_get(DelegatedRoles, roles[i].name).keyids)
                     /\ roles[i].value.signatures[1].keyid
                            \in DOMAIN Parent.signed.delegations[1].keys

C8_Witness ==
    /\ pc = "done"
    /\ NUMBER_OF_BINS = 32
    /\ Len(roles) = 33
    /\ error = "none"

\* C9, as claimed: when the signer has failed for one role, that role has
\* no signature and no file, and every other role is signed and has its
\* file written as signed.
C9_SignerFailureIsIsolated ==
    (pc = "failed" /\ error = "sign") =>
        /\ ~IsSigned(sign_i + 1)
        /\ roles[sign_i + 1].name \o ".json" \notin DOMAIN files
        /\ \A i \in 1..Len(roles) :
             i # sign_i + 1 =>
                 /\ IsSigned(i)
                 /\ roles[i].name \o ".json" \in DOMAIN files
                 /\ files[roles[i].name \o ".json"] = roles[i].value

\* C10: a step that adds a target file changes, for some path and file
\* info, only the targets of the one role find_hash_bin names for the path,
\* and there only the item of that path, which becomes the new file info;
\* every other item, every other role ('bins' with its delegations
\* included), the order of the roles and the written files stay as they are.
C10_AddTargetChangesOneItem ==
    [][adds' = adds + 1 =>
        \E path \in TargetPaths, content \in FileContents :
            LET b == find_hash_bin(path)
            IN  /\ Cardinality({i \in 1..Len(roles) : roles[i].name = b}) = 1
                /\ b # "bins"
                /\ Len(roles') = Len(roles)
                /\ files' = files
                /\ \A i \in 1..Len(roles) :
                     /\ roles'[i].name = roles[i].name
                     /\ roles[i].name # b => roles'[i] = roles[i]
                     /\ roles[i].name = b =>
                          /\ roles'[i].value =
                                 [roles[i].value EXCEPT !.signed.targets =
                                      roles'[i].value.signed.targets]
                          /\ DOMAIN roles'[i].value.signed.targets =
                                 DOMAIN TargetsOf(i) \cup {path}
                          /\ roles'[i].value.signed.targets[path] =
                                 TargetFile_from_file(path, content)
                          /\ \A q \in DOMAIN TargetsOf(i) \ {path} :
                                 roles'[i].value.signed.targets[q] = TargetsOf(i)[q]]_vars

\* a path added twice, the second file info in place of the first, in a bin
\* that holds another path as well
C10_Witness ==
    /\ NUMBER_OF_BINS = 32
    /\ adds = 3
    /\ od_has(roles, "80-87")
    /\ LET t == od_get(roles, "80-87").signed.targets
       IN  /\ DOMAIN t = {"repo_example/hashed_bin_delegation.py", "targets/file264.txt"}
           /\ t["repo_example/hashed_bin_delegation.py"].length = 2

====
